---- MODULE Spec2Model ----
(***************************************************************************)
(* Model of the Pathfinder parking backend.                                *)
(*                                                                         *)
(*  - backend/realtime_parking_system.py : the catalog (parking_spots),    *)
(*    the ledger (user_recommendations), the simulator thread              *)
(*    (simulate_spots), the dispatcher (check_user_recommendations,        *)
(*    send_reroute_notification, send_low_availability_warning) and the    *)
(*    socket handlers.  Specification: Spec.                                *)
(*  - backend/parking_finder_v2.py : find_top_parking, the simulator       *)
(*    simulate_parking_changes and the loop of simulate_user_navigation.   *)
(*    Specification: NavSpec.                                              *)
(*                                                                         *)
(* Units.  Coordinates are metres on a plane (north, east) measured from   *)
(* (40.4400, -79.9970); haversine becomes the truncated euclidean          *)
(* distance.  Prices are in half dollars (3.0 -> 6).  Scores are kept as   *)
(* integers by scaling: x20 in the realtime system (weights in tenths,     *)
(* availability factor in halves), x4 in parking_finder_v2.                *)
(***************************************************************************)
EXTENDS Integers, Sequences, FiniteSets, TLC

\* ------------------------------------------------------------------ bounds
Capacity == 5          \* total_spots / capacity of every modelled location
TimeGrain == 200       \* the clock is observed at multiples of TimeGrain
MaxTime == 410         \* no clock instant later than this is explored

\* ------------------------------------------------------- program constants
MaxChange == 5             \* random.randint(-5, 5)
SleepSeconds == 8          \* time.sleep(8)
StaleAfter == 300          \* current_time - timestamp > 300
LowThreshold == 5          \* available_spots < 5 and old_available >= 5
PenaltyThreshold == 20     \* availability_factor = 1.0 if available > 20
DefaultPriceWeight == 3    \* price_weight = 0.3, in tenths

\* The catalog: the first two locations of parking_spots (Garage A, Garage B).
Garages == {1, 2}
GarageNorth == <<56, 167>>
GarageEast == <<93, 339>>
PricePerHour == <<6, 4>>
total_spots(g) == Capacity
InitialAvailable == <<Capacity, Capacity - 1>>

Sessions == {"s1", "s2"}
SIM == "simulator"
FREE == "free"
NoRec == [garage_name |-> 0]

\* The trip each client sends: user position, destination, duration (hours).
TripOf ==
  [s \in Sessions |->
     IF s = "s1"
     THEN [user |-> <<0, 169>>, dest |-> <<278, 212>>, duration |-> 2]
     ELSE [user |-> <<167, 300>>, dest |-> <<60, 100>>, duration |-> 1]]
NoTrip == [user |-> <<>>, dest |-> <<>>, duration |-> 1]

Times == {t \in 0..MaxTime : t % TimeGrain = 0}

\* realtime_parking_system.py
VARIABLES available, parking_lock, user_recommendations, now, connected,
          reqPc, reqTrip, reqBest,
          simPc, simGarage, simOld, simItems, simCall, emitted
\* parking_finder_v2.py
VARIABLES navAvailable, navPc, navTrip, position, last_recommended,
          last_notification_time, navNow, navSnap, navOut
\* direct calls of score_parking, find_best_garage, find_top_garages,
\* find_top_parking and current_parking
VARIABLES fnIn, fnOut

rtVars == <<available, parking_lock, user_recommendations, now, connected,
            reqPc, reqTrip, reqBest,
            simPc, simGarage, simOld, simItems, simCall, emitted>>
navVars == <<navAvailable, navPc, navTrip, position, last_recommended,
             last_notification_time, navNow, navSnap, navOut>>
\* the inputs and the result of a direct call of one function of the backend
fnVars == <<fnIn, fnOut>>
vars == <<rtVars, navVars, fnVars>>

\* ------------------------------------------------------------ pure helpers
Max(a, b) == IF a > b THEN a ELSE b
Min(a, b) == IF a < b THEN a ELSE b

RECURSIVE SqrtSearch(_, _, _)
SqrtSearch(n, lo, hi) ==
  IF lo = hi THEN lo
  ELSE LET mid == (lo + hi + 1) \div 2
       IN IF mid * mid <= n THEN SqrtSearch(n, mid, hi)
          ELSE SqrtSearch(n, lo, mid - 1)

\* haversine(lat1, lon1, lat2, lon2), truncated to the unit of p and q
haversine(p, q) ==
  LET n == (p[1] - q[1]) * (p[1] - q[1]) + (p[2] - q[2]) * (p[2] - q[2])
  IN SqrtSearch(n, 0, 46340)

GaragePos(g) == <<GarageNorth[g], GarageEast[g]>>

availability_factorInclusive(avail) == IF avail >= PenaltyThreshold THEN 2 ELSE 3

\* availability_factor = 1.0 if available_spots > 20 else 1.5, in halves
availability_factor(avail) == IF avail > PenaltyThreshold THEN 2 ELSE 3

\* score_parking of the realtime system: [score, drive, walk], score x20
score_parking(g, avail, user, dest, price_weight) ==
  LET drive_distance == haversine(user, GaragePos(g))
      walk_distance == haversine(GaragePos(g), dest)
      total_distance == drive_distance + walk_distance * 2
  IN [score |-> ((10 - price_weight) * total_distance
                   + price_weight * PricePerHour[g] * 50)
                  * availability_factor(avail),
      drive |-> drive_distance,
      walk |-> walk_distance]

AvailableGaragesNoFilter(av) == {g \in Garages : av[g] >= 0}

\* the list comprehension [g for g in parking_spots if available_spots > 0]
AvailableGarages(av) == {g \in Garages : av[g] > 0}

find_best_garageLastTie(av, user, dest, price_weight) ==
  LET cands == AvailableGarages(av)
      sc(g) == score_parking(g, av[g], user, dest, price_weight).score
  IN IF cands = {} THEN 0
     ELSE CHOOSE g \in cands :
            \A h \in cands : sc(g) < sc(h) \/ (sc(g) = sc(h) /\ g >= h)

\* find_best_garage: first location of least score in catalog order, 0 = None
find_best_garage(av, user, dest, price_weight) ==
  LET cands == AvailableGarages(av)
      sc(g) == score_parking(g, av[g], user, dest, price_weight).score
  IN IF cands = {} THEN 0
     ELSE CHOOSE g \in cands :
            \A h \in cands : sc(g) < sc(h) \/ (sc(g) = sc(h) /\ g <= h)

WalkTo(g, dest) == haversine(GaragePos(g), dest)


simVars == <<simPc, simGarage, simOld, simItems, simCall>>
reqVars == <<reqPc, reqTrip, reqBest>>

\* find_top_garages: insertion of one scored entry, stable (list.sort)
RECURSIVE InsertScored(_, _)
InsertScored(seq, e) ==
  IF seq = <<>> THEN <<e>>
  ELSE IF e.score < Head(seq).score THEN <<e>> \o seq
       ELSE <<Head(seq)>> \o InsertScored(Tail(seq), e)

RECURSIVE ScoredFrom(_, _, _, _, _)
ScoredFrom(g, av, user, dest, price_weight) ==
  IF g = 0 THEN <<>>
  ELSE LET rest == ScoredFrom(g - 1, av, user, dest, price_weight)
           r == score_parking(g, av[g], user, dest, price_weight)
       IN IF g \in AvailableGarages(av)
          THEN InsertScored(rest, [garage |-> g, score |-> r.score,
                                   drive |-> r.drive, walk |-> r.walk])
          ELSE rest

find_top_garagesAll(av, user, dest, price_weight, n) ==
  ScoredFrom(Cardinality(Garages), av, user, dest, price_weight)

\* find_top_garages: scored[:n], ascending by score
find_top_garages(av, user, dest, price_weight, n) ==
  LET scored == ScoredFrom(Cardinality(Garages), av, user, dest, price_weight)
  IN SubSeq(scored, 1, Min(n, Len(scored)))

AcquirableAlways(lock) == TRUE

\* threading.Lock: 'with parking_lock' goes on only when no thread holds it
Acquirable(lock) == lock = FREE

\* ------------------------------------------------------- socket handlers
\* emitted holds the 'notification' and 'parking_recommendation' events sent
\* by the last step; the 'connected' acknowledgement is not recorded
handle_connect(s) ==
  /\ s \notin connected
  /\ reqPc[s] = "idle"
  /\ user_recommendations[s] = NoRec
  /\ connected' = connected \cup {s}
  /\ emitted' = {}
  /\ UNCHANGED <<available, parking_lock, user_recommendations, now,
                 reqVars, simVars, navVars, fnVars>>

handle_disconnect(s) ==
  /\ s \in connected
  /\ connected' = connected \ {s}
  /\ user_recommendations' = [user_recommendations EXCEPT ![s] = NoRec]
  /\ emitted' = {}
  /\ UNCHANGED <<available, parking_lock, now, reqVars, simVars, navVars, fnVars>>

\* handle_parking_request up to the call of find_best_garage
RequestData(s) == {TripOf[s], NoTrip}

\* float(data.get(...)) raises TypeError or ValueError
Parses(data) == Len(data.user) = 2 /\ Len(data.dest) = 2

handle_parking_request(s, data) ==
  /\ s \in connected
  /\ reqPc[s] = "idle"
  /\ IF ~Parses(data)
     THEN /\ emitted' = {[to |-> s, type |-> "error",
                          message |-> "Invalid location data"]}
          /\ UNCHANGED reqVars
     ELSE /\ reqPc' = [reqPc EXCEPT ![s] = "find_best_garage"]
          /\ reqTrip' = [reqTrip EXCEPT ![s] = data]
          /\ emitted' = {}
          /\ UNCHANGED reqBest
  /\ UNCHANGED <<available, parking_lock, user_recommendations, now,
                 connected, simVars, navVars, fnVars>>

RequestGotBestSilent(s, best) ==
  IF best = 0
  THEN /\ emitted' = {}
       /\ reqPc' = [reqPc EXCEPT ![s] = "idle"]
       /\ reqTrip' = [reqTrip EXCEPT ![s] = NoTrip]
       /\ UNCHANGED reqBest
  ELSE /\ emitted' = {}
       /\ reqPc' = [reqPc EXCEPT ![s] = "find_top_garages"]
       /\ reqBest' = [reqBest EXCEPT ![s] = best]
       /\ UNCHANGED reqTrip

\* the rest of handle_parking_request after find_best_garage returned best
RequestGotBest(s, best) ==
  IF best = 0
  THEN /\ emitted' = {[to |-> s, type |-> "error",
                       message |-> "No parking available"]}
       /\ reqPc' = [reqPc EXCEPT ![s] = "idle"]
       /\ reqTrip' = [reqTrip EXCEPT ![s] = NoTrip]
       /\ UNCHANGED reqBest
  ELSE /\ emitted' = {}
       /\ reqPc' = [reqPc EXCEPT ![s] = "find_top_garages"]
       /\ reqBest' = [reqBest EXCEPT ![s] = best]
       /\ UNCHANGED reqTrip

\* handle_parking_request from the call of find_top_garages to its end
RequestFindTop(s) ==
  /\ reqPc[s] = "find_top_garages"
  /\ Acquirable(parking_lock)
  /\ LET trip == reqTrip[s]
         best == reqBest[s]
         top_garages == find_top_garages(available, trip.user, trip.dest,
                                         DefaultPriceWeight, 3)
         alternatives == [i \in 1..(Len(top_garages) - 1) |->
                            [name |-> top_garages[i + 1].garage,
                             available_spots |->
                               available[top_garages[i + 1].garage]]]
     IN /\ user_recommendations' =
             [user_recommendations EXCEPT ![s] =
                [garage_name |-> best, timestamp |-> now, trip |-> trip,
                 walk_distance |-> WalkTo(best, trip.dest)]]
        /\ emitted' = {[to |-> s, type |-> "parking_recommendation",
                        best_parking |-> [name |-> best,
                                          available_spots |-> available[best]],
                        alternatives |-> alternatives]}
  /\ reqPc' = [reqPc EXCEPT ![s] = "idle"]
  /\ reqTrip' = [reqTrip EXCEPT ![s] = NoTrip]
  /\ reqBest' = [reqBest EXCEPT ![s] = 0]
  /\ UNCHANGED <<available, parking_lock, now, connected, simVars, navVars, fnVars>>

\* ------------------------------------------------------------- simulator
LastGarage == Cardinality(Garages)

\* the for loop of simulate_spots moves to the next location, or the with
\* block ends and the thread sleeps
SimAdvance ==
  /\ simOld' = 0
  /\ IF simGarage = LastGarage
     THEN /\ simPc' = "sleep"
          /\ simGarage' = 0
          /\ parking_lock' = FREE
     ELSE /\ simPc' = "for_garage"
          /\ simGarage' = simGarage + 1
          /\ UNCHANGED parking_lock

\* time.sleep(8) returns and the with block takes parking_lock
SimWake ==
  /\ simPc = "sleep"
  /\ Acquirable(parking_lock)
  /\ \E t \in Times : t >= now + SleepSeconds /\ now' = t
  /\ parking_lock' = SIM
  /\ simPc' = "for_garage"
  /\ simGarage' = 1
  /\ emitted' = {}
  /\ UNCHANGED <<available, user_recommendations, connected, reqVars,
                 simOld, simItems, simCall, navVars, fnVars>>

ClampNoFloor(g, v) == Min(total_spots(g), v)

\* max(0, min(garage["total_spots"], garage["available_spots"] + change))
Clamp(g, v) == Max(0, Min(total_spots(g), v))

ChangedAlways(new_available, old_available) == TRUE

\* if garage["available_spots"] != old_available
Changed(new_available, old_available) == new_available # old_available

\* one iteration of the for loop up to the call of check_user_recommendations,
\* whose first statements copy the ledger items
SimAdjust(change) ==
  /\ simPc = "for_garage"
  /\ LET g == simGarage
         old_available == available[g]
         new_available == Clamp(g, available[g] + change)
         items == {s \in Sessions : user_recommendations[s] # NoRec}
     IN /\ available' = [available EXCEPT ![g] = new_available]
        /\ IF Changed(new_available, old_available) /\ items # {}
           THEN /\ simPc' = "check"
                /\ simOld' = old_available
                /\ simItems' = [s \in items |-> user_recommendations[s]]
                /\ UNCHANGED <<simGarage, parking_lock>>
           ELSE /\ SimAdvance
                /\ simItems' = <<>>
  /\ emitted' = {}
  /\ UNCHANGED <<user_recommendations, now, connected, reqVars, simCall,
                 navVars, fnVars>>

IsStaleNever(rec, current_time) == FALSE

\* current_time - rec.get("timestamp", 0) > 300
IsStale(rec, current_time) == current_time - rec.timestamp > StaleAfter

AffectsAny(rec, g) == TRUE

\* rec["garage_name"] == changed_garage["name"]
Affects(rec, g) == rec.garage_name = g

LowAvailabilityNoOld(new_available, old_available) ==
  new_available < LowThreshold

\* changed_garage["available_spots"] < 5 and old_available >= 5
LowAvailability(new_available, old_available) ==
  new_available < LowThreshold /\ old_available >= LowThreshold

\* one iteration of the for loop of check_user_recommendations
SimCheck(s) ==
  /\ simPc = "check"
  /\ s \in DOMAIN simItems
  /\ LET rec == simItems[s]
         g == simGarage
         rest == [t \in (DOMAIN simItems) \ {s} |-> simItems[t]]
         full == /\ ~IsStale(rec, now)
                 /\ Affects(rec, g)
                 /\ available[g] = 0
         low == /\ ~IsStale(rec, now)
                /\ Affects(rec, g)
                /\ available[g] # 0
                /\ LowAvailability(available[g], simOld)
     IN IF full
        THEN \* send_reroute_notification(session_id, rec, "full") reaches
             \* its call of find_best_garage
             /\ simPc' = "find_best_garage"
             /\ simCall' = [session |-> s, old_rec |-> rec]
             /\ simItems' = rest
             /\ emitted' = {}
             /\ UNCHANGED <<simGarage, simOld, parking_lock>>
        ELSE /\ emitted' = IF low
                           THEN {[to |-> s, type |-> "warning", garage |-> g,
                                  spots_remaining |-> available[g]]}
                           ELSE {}
             /\ UNCHANGED simCall
             /\ IF DOMAIN rest = {}
                THEN /\ SimAdvance
                     /\ simItems' = <<>>
                ELSE /\ simItems' = rest
                     /\ UNCHANGED <<simPc, simGarage, simOld, parking_lock>>
  /\ UNCHANGED <<available, user_recommendations, now, connected, reqVars,
                 navVars, fnVars>>

\* the rest of send_reroute_notification after find_best_garage returned;
\* user_recommendations[session_id] raises KeyError when the entry is gone,
\* which ends the simulator thread (the with block releases the lock)
RerouteGotBest(new_garage) ==
  LET s == simCall.session
      old_rec == simCall.old_rec
      updates == new_garage # 0
      key_error == updates /\ user_recommendations[s] = NoRec
  IN /\ emitted' = IF updates
                   THEN {[to |-> s, type |-> "reroute",
                          new_garage |-> new_garage]}
                   ELSE {[to |-> s, type |-> "error",
                          message |-> "No Parking Available"]}
     /\ user_recommendations' =
          IF updates /\ ~key_error
          THEN [user_recommendations EXCEPT ![s] =
                  [@ EXCEPT !.garage_name = new_garage,
                            !.timestamp = now,
                            !.walk_distance =
                               WalkTo(new_garage, old_rec.trip.dest)]]
          ELSE user_recommendations
     /\ simCall' = NoRec
     /\ IF key_error
        THEN /\ simPc' = "crashed"
             /\ parking_lock' = FREE
             /\ UNCHANGED <<simGarage, simOld, simItems>>
        ELSE IF DOMAIN simItems = {}
             THEN /\ SimAdvance
                  /\ simItems' = <<>>
             ELSE /\ simPc' = "check"
                  /\ UNCHANGED <<simGarage, simOld, simItems, parking_lock>>
     /\ UNCHANGED reqVars

Threads == Sessions \cup {SIM}

\* the with block of find_best_garage, entered by the thread that called it:
\* parking_lock is a threading.Lock, so the caller waits until it is free
FindBestGarageCall(th) ==
  /\ Acquirable(parking_lock)
  /\ IF th = SIM
     THEN /\ simPc = "find_best_garage"
          /\ LET t == simCall.old_rec.trip
             IN RerouteGotBest(find_best_garage(available, t.user, t.dest,
                                                DefaultPriceWeight))
     ELSE /\ reqPc[th] = "find_best_garage"
          /\ LET t == reqTrip[th]
             IN RequestGotBest(th, find_best_garage(available, t.user, t.dest,
                                                    DefaultPriceWeight))
          /\ UNCHANGED <<user_recommendations, simVars, parking_lock>>
  /\ UNCHANGED <<available, now, connected, navVars, fnVars>>

\* =====================================================================
\* parking_finder_v2.py
\* =====================================================================
MaxNavTime == 30       \* bound: the navigation clock is explored up to here
MaxLag == 2            \* bound: one loop iteration takes 5, ..., 5 * MaxLag s

NavSleep == 5              \* time.sleep(5)
NavMaxChange == 10         \* random.randint(-10, 10)
Cooldown == 10             \* (current_time - last_notification_time) > 10
SwitchDistance == 20000    \* distance_to_current > 200, in centimetres
MinSavings == 2            \* cost_savings > 1.0, in half dollars
ArrivalRadius == 500       \* haversine(lat, lng, dest_lat, dest_lng) > 5, in cm
StepPercent == 8           \* lat += (dest_lat - lat) * 0.08

capacity(g) == Capacity
NavInitialAvailable == <<Capacity, Capacity - 1>>

\* arguments of simulate_user_navigation; positions in centimetres
NavTrips ==
  { [user |-> <<0, 0>>, dest |-> <<27800, 21200>>, duration |-> 2],
    [user |-> <<0, 0>>, dest |-> <<27800, 21200>>, duration |-> 1],
    [user |-> <<0, 16900>>, dest |-> <<27800, 21200>>, duration |-> 2],
    [user |-> <<27300, 20870>>, dest |-> <<27800, 21200>>, duration |-> 2] }

ToCm(p) == <<p[1] * 100, p[2] * 100>>
ToMetres(p) == <<p[1] \div 100, p[2] \div 100>>
NoOut == [type |-> "none", reason |-> "", at |-> 0, garage |-> 0]

\* score_parking of parking_finder_v2 (alpha = 0.5), score x4
score_parking_v2(g, avail, dest) ==
  LET distance == haversine(GaragePos(g), dest)
  IN (distance + PricePerHour[g] * 50) * availability_factor(avail)

RECURSIVE ScoredFromV2(_, _, _, _)
ScoredFromV2(g, snap, av, dest) ==
  IF g = 0 THEN <<>>
  ELSE LET rest == ScoredFromV2(g - 1, snap, av, dest)
       IN IF g \in snap
          THEN InsertScored(rest, [garage |-> g,
                                   score |-> score_parking_v2(g, av[g], dest)])
          ELSE rest

\* find_top_parking after its with block: snap is the list available_spots
\* built under the lock, av the counts read while scoring
find_top_parking(snap, av, dest, n) ==
  LET scored == ScoredFromV2(Cardinality(Garages), snap, av, dest)
  IN SubSeq(scored, 1, Min(n, Len(scored)))

NotifyReasonNoDistance(old_ok, distance, cost_savings) ==
  IF ~old_ok THEN "full"
  ELSE IF cost_savings > MinSavings THEN "better" ELSE ""

\* the decision of simulate_user_navigation: "" when should_notify is False
NotifyReason(old_still_available, distance_to_current, cost_savings) ==
  IF ~old_still_available THEN "full"
  ELSE IF distance_to_current > SwitchDistance /\ cost_savings > MinSavings
       THEN "better"
       ELSE ""

ThrottledNever(current_time, last_time) == FALSE

\* the throttle: not (current_time - last_notification_time) > 10
Throttled(current_time, last_time) == ~(current_time - last_time > Cooldown)

MoveCloserStalled(pos, dest) == pos

\* lat += (dest_lat - lat) * 0.08 ; lng += (dest_lng - lng) * 0.08
MoveCloser(pos, dest) ==
  <<pos[1] + ((dest[1] - pos[1]) * StepPercent) \div 100,
    pos[2] + ((dest[2] - pos[2]) * StepPercent) \div 100>>



ClampV2(g, v) == Max(0, Min(capacity(g), v))

\* one iteration of simulate_parking_changes
simulate_parking_changes(spot, change) ==
  /\ navPc # "off"
  /\ navAvailable' = [navAvailable EXCEPT ![spot] = ClampV2(spot, @ + change)]
  /\ UNCHANGED <<navPc, navTrip, position, last_recommended,
                 last_notification_time, navNow, navSnap, navOut, rtVars, fnVars>>

\* the while test held; find_top_parking builds available_spots under the lock
NavSnapshot ==
  /\ navPc = "loop"
  /\ haversine(position, navTrip.dest) > ArrivalRadius
  /\ navSnap' = AvailableGarages(navAvailable)
  /\ navPc' = "score"
  /\ UNCHANGED <<navAvailable, navTrip, position, last_recommended,
                 last_notification_time, navNow, navOut, rtVars, fnVars>>

\* the rest of the loop body, up to the end of time.sleep(5)
NavStep(elapsed) ==
  /\ navPc = "score"
  /\ navNow + elapsed <= MaxNavTime
  /\ navPc' = "loop"
  /\ navSnap' = {}
  /\ navNow' = navNow + elapsed
  /\ LET top_spots == find_top_parking(navSnap, navAvailable,
                                       ToMetres(navTrip.dest), 3)
     IN IF top_spots = <<>>
        THEN /\ navOut' = [type |-> "alert", reason |-> "", at |-> navNow,
                           garage |-> 0]
             /\ UNCHANGED <<position, last_recommended,
                            last_notification_time>>
        ELSE LET best == top_spots[1].garage
                 current_time == navNow
                 old_spot == last_recommended
                 changed == old_spot # 0 /\ best # old_spot
                 reason ==
                   IF changed
                   THEN NotifyReason(
                          navAvailable[old_spot] > 0,
                          haversine(position, ToCm(GaragePos(best))),
                          (PricePerHour[old_spot] - PricePerHour[best])
                             * navTrip.duration)
                   ELSE ""
                 notify == /\ reason # ""
                           /\ ~Throttled(current_time, last_notification_time)
             IN /\ navOut' = [type |-> IF notify THEN "reroute"
                                       ELSE IF old_spot = 0 THEN "initial"
                                       ELSE "none",
                              reason |-> reason, at |-> current_time,
                              garage |-> best]
                /\ last_notification_time' =
                     IF notify THEN current_time ELSE last_notification_time
                /\ last_recommended' = best
                /\ position' = MoveCloser(position, navTrip.dest)
  /\ UNCHANGED <<navAvailable, navTrip, rtVars, fnVars>>

\* the while test failed: the arrival message
NavArrive ==
  /\ navPc = "loop"
  /\ ~(haversine(position, navTrip.dest) > ArrivalRadius)
  /\ navPc' = "done"
  /\ navOut' = [type |-> "arrived", reason |-> "", at |-> navNow,
                garage |-> last_recommended]
  /\ UNCHANGED <<navAvailable, navTrip, position, last_recommended,
                 last_notification_time, navNow, navSnap, rtVars, fnVars>>

NavNext ==
  \/ \E spot \in Garages : \E change \in (-NavMaxChange)..NavMaxChange :
       simulate_parking_changes(spot, change)
  \/ NavSnapshot
  \/ \E k \in 1..MaxLag : NavStep(NavSleep * k)
  \/ NavArrive

\* =====================================================================
\* direct calls of the pure functions and of the HTTP endpoint
\* =====================================================================
NoCall == [fn |-> "none"]

\* counts the catalog of the source can hold (total_spots 100 and 150),
\* taken on both sides of 0 and of the penalty threshold
AvailSamples == {0, 1, PenaltyThreshold, PenaltyThreshold + 1}

\* price_weight: the default, and a value stored by /api/preferences
PriceWeights == {DefaultPriceWeight, 5}

\* trips of the direct calls: user position, destination, duration
FnTrips ==
  { [user |-> <<0, 169>>, dest |-> <<278, 212>>, duration |-> 2],
    [user |-> <<0, 140>>, dest |-> <<0, 300>>, duration |-> 2],
    [user |-> <<0, 169>>, dest |-> <<220, 80>>, duration |-> 1],
    [user |-> <<56, 93>>, dest |-> <<60, 100>>, duration |-> 1],
    [user |-> <<1500, 93>>, dest |-> <<60, 100>>, duration |-> 1] }

FnInputs ==
  [av : [Garages -> AvailSamples], trip : FnTrips, price_weight : PriceWeights]

UnknownDistance == [value |-> 0, unit |-> "Unknown"]
UnknownDuration == [value |-> 0, mins |-> 0, unit |-> "Unknown"]

\* format_distance: int(meters) "m" below 1000, else round(meters/1000, 1)
\* "km" (value in tenths of a kilometre)
format_distance(meters) ==
  IF meters < 1000 THEN [value |-> meters, unit |-> "m"]
  ELSE [value |-> (meters + 50) \div 100, unit |-> "km"]

\* format_duration
format_duration(seconds) ==
  IF seconds < 60 THEN [value |-> seconds, mins |-> 0, unit |-> "sec"]
  ELSE IF seconds < 3600
       THEN [value |-> seconds \div 60, mins |-> 0, unit |-> "min"]
       ELSE [value |-> seconds \div 3600, mins |-> (seconds % 3600) \div 60,
             unit |-> "h"]

ApiStep(text) == [text |-> text, distance |-> UnknownDistance, to |-> 0]

\* what get_directions returns: (None, None, None) on any failure, else
\* (steps, duration, distance)
NoDirections == [ok |-> FALSE, steps |-> <<>>, duration |-> 0, distance |-> 0]
DirectionsResults ==
  { NoDirections,
    [ok |-> TRUE, steps |-> <<ApiStep("Head north"), ApiStep("Turn left")>>,
     duration |-> 95, distance |-> 310] }

\* score_parking(garage, user_lat, user_lng, dest_lat, dest_lng, price_weight)
CallScoreParking(g) ==
  /\ fnOut' = [fn |-> "score_parking", garage |-> g,
               result |-> score_parking(g, fnIn.av[g], fnIn.trip.user,
                                        fnIn.trip.dest, fnIn.price_weight)]
  /\ UNCHANGED <<fnIn, rtVars, navVars>>

\* score_parking(parking, dest_lat, dest_lng) of parking_finder_v2
CallScoreParkingV2(g) ==
  /\ fnOut' = [fn |-> "score_parking_v2", garage |-> g,
               result |-> score_parking_v2(g, fnIn.av[g], fnIn.trip.dest)]
  /\ UNCHANGED <<fnIn, rtVars, navVars>>

\* what find_best_garage returns: (best_garage, best_drive, best_walk), or
\* (None, 0, 0)
find_best_garage_return(av, user, dest, price_weight) ==
  LET g == find_best_garage(av, user, dest, price_weight)
  IN IF g = 0 THEN [garage |-> 0, drive |-> 0, walk |-> 0]
     ELSE LET r == score_parking(g, av[g], user, dest, price_weight)
          IN [garage |-> g, drive |-> r.drive, walk |-> r.walk]

CallFindBestGarage ==
  /\ fnOut' = [fn |-> "find_best_garage",
               result |-> find_best_garage_return(fnIn.av, fnIn.trip.user,
                                                  fnIn.trip.dest,
                                                  fnIn.price_weight)]
  /\ UNCHANGED <<fnIn, rtVars, navVars>>

CallFindTopGarages(n) ==
  /\ fnOut' = [fn |-> "find_top_garages", n |-> n,
               result |-> find_top_garages(fnIn.av, fnIn.trip.user,
                                           fnIn.trip.dest, fnIn.price_weight,
                                           n)]
  /\ UNCHANGED <<fnIn, rtVars, navVars>>

CallFindTopParking(n) ==
  /\ fnOut' = [fn |-> "find_top_parking", n |-> n,
               result |-> find_top_parking(AvailableGarages(fnIn.av), fnIn.av,
                                           fnIn.trip.dest, n)]
  /\ UNCHANGED <<fnIn, rtVars, navVars>>

\* the fallback step of current_parking for a failed lookup
SynthStep(text, distance, to) ==
  [text |-> text, distance |-> format_distance(distance), to |-> to]

\* GET /current_parking with well-formed parameters; drive and walk are what
\* the two calls of get_directions return
current_parking(drive, walk) ==
  /\ LET user == fnIn.trip.user
         dest == fnIn.trip.dest
         top_spots == find_top_parking(AvailableGarages(fnIn.av), fnIn.av,
                                       dest, 3)
     IN IF top_spots = <<>>
        THEN fnOut' = [fn |-> "current_parking", status |-> 404,
                       error |-> "No parking available"]
        ELSE LET best == top_spots[1].garage
                 drive_distance == IF drive.ok THEN drive.distance
                                   ELSE haversine(user, GaragePos(best))
                 drive_directions ==
                   IF drive.ok THEN drive.steps
                   ELSE <<SynthStep("Drive approximately", drive_distance,
                                    best)>>
                 drive_time == IF drive.ok THEN drive.duration ELSE 0
                 walk_distance == IF walk.ok THEN walk.distance
                                  ELSE haversine(GaragePos(best), dest)
                 walk_directions ==
                   IF walk.ok THEN walk.steps
                   ELSE <<SynthStep("Walk approximately", walk_distance, 0)>>
                 walk_time == IF walk.ok THEN walk.duration ELSE 0
             IN fnOut' =
                  [fn |-> "current_parking", status |-> 200,
                   drive_api |-> drive, walk_api |-> walk,
                   best_parking |-> best,
                   directions_to_parking |->
                     [steps |-> SubSeq(drive_directions, 1,
                                       Min(10, Len(drive_directions))),
                      duration |-> IF drive_time # 0
                                   THEN format_duration(drive_time)
                                   ELSE UnknownDuration,
                      distance |-> IF drive_distance # 0
                                   THEN format_distance(drive_distance)
                                   ELSE UnknownDistance],
                   walk_to_destination |->
                     [steps |-> SubSeq(walk_directions, 1,
                                       Min(10, Len(walk_directions))),
                      duration |-> IF walk_time # 0
                                   THEN format_duration(walk_time)
                                   ELSE UnknownDuration,
                      distance |-> format_distance(walk_distance)],
                   alternatives |-> [i \in 1..(Len(top_spots) - 1) |->
                                       top_spots[i + 1].garage]]
  /\ UNCHANGED <<fnIn, rtVars, navVars>>

FnNext ==
  \/ \E g \in Garages : CallScoreParking(g)
  \/ \E g \in Garages : CallScoreParkingV2(g)
  \/ CallFindBestGarage
  \/ \E n \in 1..3 : CallFindTopGarages(n)
  \/ \E n \in 1..3 : CallFindTopParking(n)
  \/ \E drive \in DirectionsResults : \E walk \in DirectionsResults :
       current_parking(drive, walk)

\* the request path of the realtime system alone: every trip a client can
\* send, against every catalog state
TripInputs(s) ==
  RequestData(s) \cup {[TripOf[s] EXCEPT !.duration = d] : d \in {-1, 0}}

TripNext ==
  \/ \E s \in Sessions : handle_connect(s)
  \/ \E s \in Sessions : handle_disconnect(s)
  \/ \E s \in Sessions : \E data \in TripInputs(s) : handle_parking_request(s, data)
  \/ \E s \in Sessions : FindBestGarageCall(s)
  \/ \E s \in Sessions : RequestFindTop(s)

\* =====================================================================
\* specifications
\* =====================================================================
\* the realtime system after import; the navigation of parking_finder_v2 is
\* not started
Init ==
  /\ available = [g \in Garages |-> InitialAvailable[g]]
  /\ parking_lock = FREE
  /\ user_recommendations = [s \in Sessions |-> NoRec]
  /\ now = 0
  /\ connected = {}
  /\ reqPc = [s \in Sessions |-> "idle"]
  /\ reqTrip = [s \in Sessions |-> NoTrip]
  /\ reqBest = [s \in Sessions |-> 0]
  /\ simPc = "sleep"
  /\ simGarage = 0
  /\ simOld = 0
  /\ simItems = <<>>
  /\ simCall = NoRec
  /\ emitted = {}
  /\ navAvailable = [g \in Garages |-> NavInitialAvailable[g]]
  /\ navPc = "off"
  /\ navTrip = CHOOSE t \in NavTrips : t.duration = 2 /\ t.user = <<0, 0>>
  /\ position = navTrip.user
  /\ last_recommended = 0
  /\ last_notification_time = 0
  /\ navNow = 0
  /\ navSnap = {}
  /\ navOut = NoOut
  /\ fnIn = NoCall
  /\ fnOut = NoCall

\* parking_finder_v2 after simulate_user_navigation set its locals; the
\* realtime system is not running
NavInit ==
  /\ available = [g \in Garages |-> InitialAvailable[g]]
  /\ parking_lock = FREE
  /\ user_recommendations = [s \in Sessions |-> NoRec]
  /\ now = 0
  /\ connected = {}
  /\ reqPc = [s \in Sessions |-> "idle"]
  /\ reqTrip = [s \in Sessions |-> NoTrip]
  /\ reqBest = [s \in Sessions |-> 0]
  /\ simPc = "sleep"
  /\ simGarage = 0
  /\ simOld = 0
  /\ simItems = <<>>
  /\ simCall = NoRec
  /\ emitted = {}
  /\ navAvailable = [g \in Garages |-> NavInitialAvailable[g]]
  /\ navPc = "loop"
  /\ navTrip \in NavTrips
  /\ position = navTrip.user
  /\ last_recommended = 0
  /\ last_notification_time = 0
  /\ navNow = 0
  /\ navSnap = {}
  /\ navOut = NoOut
  /\ fnIn = NoCall
  /\ fnOut = NoCall

\* a direct call: the catalog state, the trip and the preference are drawn
\* from the input sets; nothing else runs
FnInit ==
  /\ available = [g \in Garages |-> InitialAvailable[g]]
  /\ parking_lock = FREE
  /\ user_recommendations = [s \in Sessions |-> NoRec]
  /\ now = 0
  /\ connected = {}
  /\ reqPc = [s \in Sessions |-> "idle"]
  /\ reqTrip = [s \in Sessions |-> NoTrip]
  /\ reqBest = [s \in Sessions |-> 0]
  /\ simPc = "sleep"
  /\ simGarage = 0
  /\ simOld = 0
  /\ simItems = <<>>
  /\ simCall = NoRec
  /\ emitted = {}
  /\ navAvailable = [g \in Garages |-> NavInitialAvailable[g]]
  /\ navPc = "off"
  /\ navTrip = CHOOSE t \in NavTrips : t.duration = 2 /\ t.user = <<0, 0>>
  /\ position = navTrip.user
  /\ last_recommended = 0
  /\ last_notification_time = 0
  /\ navNow = 0
  /\ navSnap = {}
  /\ navOut = NoOut
  /\ fnIn \in FnInputs
  /\ fnOut = NoCall

\* the request path alone: the simulator is not started and the catalog is
\* in any state its clamp allows
TripInit ==
  /\ available \in [Garages -> 0..Capacity]
  /\ parking_lock = FREE
  /\ user_recommendations = [s \in Sessions |-> NoRec]
  /\ now = 0
  /\ connected = {}
  /\ reqPc = [s \in Sessions |-> "idle"]
  /\ reqTrip = [s \in Sessions |-> NoTrip]
  /\ reqBest = [s \in Sessions |-> 0]
  /\ simPc = "sleep"
  /\ simGarage = 0
  /\ simOld = 0
  /\ simItems = <<>>
  /\ simCall = NoRec
  /\ emitted = {}
  /\ navAvailable = [g \in Garages |-> NavInitialAvailable[g]]
  /\ navPc = "off"
  /\ navTrip = CHOOSE t \in NavTrips : t.duration = 2 /\ t.user = <<0, 0>>
  /\ position = navTrip.user
  /\ last_recommended = 0
  /\ last_notification_time = 0
  /\ navNow = 0
  /\ navSnap = {}
  /\ navOut = NoOut
  /\ fnIn = NoCall
  /\ fnOut = NoCall

Next ==
  \/ \E s \in Sessions : handle_connect(s)
  \/ \E s \in Sessions : handle_disconnect(s)
  \/ \E s \in Sessions : \E data \in RequestData(s) : handle_parking_request(s, data)
  \/ \E th \in Threads : FindBestGarageCall(th)
  \/ \E s \in Sessions : RequestFindTop(s)
  \/ SimWake
  \/ \E change \in (-MaxChange)..MaxChange : SimAdjust(change)
  \/ \E s \in Sessions : SimCheck(s)

Spec == Init /\ [][Next]_vars

NavSpec == NavInit /\ [][NavNext]_vars

FnSpec == FnInit /\ [][FnNext]_vars

TripSpec == TripInit /\ [][TripNext]_vars

\* =====================================================================
\* properties
\* =====================================================================
SimProgress ==
  \/ \E change \in (-MaxChange)..MaxChange : SimAdjust(change)
  \/ \E s \in Sessions : SimCheck(s)
  \/ FindBestGarageCall(SIM)

\* C1: no deadlock between the simulator and the request path: while the
\* simulator holds parking_lock it can always take a step of its tick, so
\* every tick that acquires the lock goes on to release it
C1_NoDeadlock == parking_lock = SIM => ENABLED SimProgress

Rerouted(s) ==
  \E m \in emitted :
     /\ m.to = s
     /\ m.type = "reroute"
     /\ user_recommendations[s] # NoRec
     /\ user_recommendations[s].garage_name = m.new_garage

\* send_reroute_notification(s, rec, "full") has been called for the full
\* event of s and is at its call of find_best_garage
ReroutePending(s) == simPc = "find_best_garage" /\ simCall.session = s

\* C2: when the active, non-stale recommendation of a session drops to 0,
\* the reroute called for it goes through: its next step emits the one
\* reroute notification to that session and makes the ledger entry name the
\* new best location
C2_FullEventReroutes ==
  \A s \in Sessions :
     ReroutePending(s) => ENABLED (FindBestGarageCall(SIM) /\ Rerouted(s)')

\* C3: every location keeps 0 <= available_spots <= total capacity, in the
\* catalog of the realtime system and in that of parking_finder_v2
C3_AvailableWithinCapacity ==
  \A g \in Garages :
     /\ 0 <= available[g] /\ available[g] <= total_spots(g)
     /\ 0 <= navAvailable[g] /\ navAvailable[g] <= capacity(g)

C3_Witness ==
  /\ now > 0
  /\ simPc = "sleep"
  /\ available[1] = 0
  /\ available[2] = total_spots(2)

\* C4: every location returned by find_best_garage, find_top_garages or
\* find_top_parking had available_spots > 0 in the catalog state the result
\* was computed from, and the result is None / empty when no location has
C4_ResultsAvailable ==
  /\ [][\A s \in Sessions :
          /\ (reqPc[s] = "find_best_garage" /\ reqPc'[s] = "find_top_garages")
               => (reqBest'[s] \in Garages /\ available[reqBest'[s]] > 0)
          /\ (reqPc[s] = "find_best_garage" /\ reqPc'[s] # "find_best_garage"
                /\ \A g \in Garages : available[g] = 0)
               => (reqPc'[s] = "idle" /\ reqBest'[s] = 0)
          /\ (reqPc[s] = "find_top_garages" /\ reqPc'[s] = "idle")
               => \A m \in emitted' :
                     \A i \in DOMAIN m.alternatives :
                        available[m.alternatives[i].name] > 0]_vars
  /\ [][(navPc = "loop" /\ navPc' = "score")
          => /\ \A g \in navSnap' : navAvailable[g] > 0
             /\ (\A g \in Garages : navAvailable[g] = 0) => navSnap' = {}]_vars

C4_Witness ==
  \E m \in emitted :
     /\ m.type = "parking_recommendation"
     /\ m.to = "s1"
     /\ m.best_parking.name = 1
     /\ m.alternatives = <<>>
     /\ available[2] = 0

\* C5: a full event (the recommended location has no spot left) always ends
\* in a reroute notification, whatever the time since the last notification
C5_FullAlwaysNotifies == navOut.reason = "full" => navOut.type = "reroute"

Handled(s) ==
  simPc = "check" /\ s \in DOMAIN simItems /\ s \notin DOMAIN simItems'

Notified(s) == \E m \in emitted : m.to = s
Warned(s) == \E m \in emitted : m.to = s /\ m.type = "warning"

\* C8: for a non-stale entry bound to the changed location, whose new count
\* is not 0, a low availability warning is emitted exactly when the new count
\* is below 5 and the old one was at least 5; the warning leaves the ledger
\* entry as it was
C8_WarningExactlyOnCrossing ==
  [][\A s \in Sessions :
       Handled(s)
         => /\ (/\ now - simItems[s].timestamp <= StaleAfter
                /\ simItems[s].garage_name = simGarage
                /\ available[simGarage] # 0)
               => (Warned(s)' <=> (available[simGarage] < 5 /\ simOld >= 5))
            /\ Warned(s)' => user_recommendations'[s] = user_recommendations[s]
    ]_vars

C8_Witness ==
  \E s \in Sessions :
     /\ Warned(s)
     /\ user_recommendations[s] # NoRec
     /\ user_recommendations[s].garage_name = simGarage
     /\ available[simGarage] \in 1..4

\* C9: a change of a location notifies no session whose entry names another
\* location; when no entry names the changed location nothing is emitted
C9_OnlyBoundSessionsNotified ==
  [][\A s \in Sessions :
       Handled(s)
         => /\ simItems[s].garage_name # simGarage
                 => (~Notified(s)' /\ simPc' # "find_best_garage")
            /\ (\A t \in DOMAIN simItems : simItems[t].garage_name # simGarage)
                 => emitted' = {}]_vars

C9_Witness ==
  \E s \in Sessions :
     /\ simPc = "check"
     /\ simItems # <<>>
     /\ s \notin DOMAIN simItems
     /\ user_recommendations[s] # NoRec
     /\ user_recommendations[s].garage_name # simGarage
     /\ now - user_recommendations[s].timestamp <= StaleAfter
     /\ simOld >= LowThreshold
     /\ available[simGarage] \in 1..4
     /\ emitted = {}

\* C10: an entry more than 300 time units old causes neither a reroute nor a
\* warning when its location changes, the check deletes no entry, and an
\* entry disappears only by the disconnect of its session
C10_StaleIgnoredNotDeleted ==
  [][\A s \in Sessions :
       /\ (Handled(s) /\ now - simItems[s].timestamp > StaleAfter)
            => /\ ~Notified(s)'
               /\ simPc' # "find_best_garage"
               /\ user_recommendations' = user_recommendations
       /\ (user_recommendations[s] # NoRec /\ user_recommendations'[s] = NoRec)
            => (s \in connected /\ s \notin connected')]_vars

C10_Witness ==
  \E s \in Sessions :
     /\ simPc = "check"
     /\ simItems # <<>>
     /\ s \notin DOMAIN simItems
     /\ user_recommendations[s] # NoRec
     /\ user_recommendations[s].garage_name = simGarage
     /\ now - user_recommendations[s].timestamp > StaleAfter
     /\ available[simGarage] = 0
     /\ emitted = {}

AllFull == \A g \in Garages : available[g] = 0

ErrorTo(s) == \E m \in emitted : m.to = s /\ m.type = "error"
RerouteTo(s) == \E m \in emitted : m.to = s /\ m.type = "reroute"

\* C11: when the reroute of a full event finds no location with a free spot,
\* it goes on to emit the error notification to the session, emits no
\* reroute, and leaves the ledger entry of the session as it was
C11_RerouteNoParkingError ==
  \A s \in Sessions :
     (ReroutePending(s) /\ AllFull)
       => ENABLED (/\ FindBestGarageCall(SIM)
                   /\ ErrorTo(s)'
                   /\ ~RerouteTo(s)'
                   /\ user_recommendations' = user_recommendations)

\* C12: a trip request answered while no location has a free spot ends with
\* the error notification 'No parking available' only, and the ledger entry
\* of the session is neither created nor modified
C12_RequestNoParking ==
  [][\A s \in Sessions :
       (reqPc[s] = "find_best_garage" /\ reqPc'[s] # "find_best_garage"
          /\ AllFull)
         => /\ reqPc'[s] = "idle"
            /\ emitted' = {[to |-> s, type |-> "error",
                            message |-> "No parking available"]}
            /\ user_recommendations' = user_recommendations]_vars

C12_Witness ==
  \E s \in Sessions :
     /\ AllFull
     /\ user_recommendations[s] # NoRec
     /\ reqPc[s] = "idle"
     /\ \E m \in emitted :
           m.to = s /\ m.type = "error" /\ m.message = "No parking available"

\* C13: a trip request with a non-positive duration or malformed coordinates
\* is rejected before scoring: it never reaches find_best_garage and no
\* ledger entry is recorded for it
C13_InvalidTripRejected ==
  \A s \in Sessions :
     /\ reqPc[s] # "idle" => reqTrip[s].duration > 0
     /\ user_recommendations[s] # NoRec
          => user_recommendations[s].trip.duration > 0

\* C14: when handle_disconnect removed the ledger entry of a session while a
\* reroute for that session is in flight, the dispatch goes on to its end:
\* its next step is possible and does not end the simulator thread with a
\* failed ledger lookup
C14_DisconnectDuringDispatch ==
  \A s \in Sessions :
     (ReroutePending(s) /\ user_recommendations[s] = NoRec)
       => ENABLED (FindBestGarageCall(SIM) /\ simPc' # "crashed")

\* the simulator thread is inside check_user_recommendations or
\* send_reroute_notification
InDispatch == simPc \in {"check", "find_best_garage"}

\* C15: no handler writes or deletes a ledger entry while the simulator
\* thread is inside check_user_recommendations / send_reroute_notification
C15_LedgerExclusive ==
  [][(InDispatch /\ UNCHANGED simVars) => UNCHANGED user_recommendations]_vars

\* C16: the critical sections on parking_lock never overlap: find_best_garage
\* and find_top_garages read the catalog only between two ticks of the
\* simulator, every count they read is within 0..total_spots, and the
\* catalog changes only while the simulator holds the lock
C16_CatalogSectionsExclusive ==
  /\ [][\A s \in Sessions :
          (reqPc[s] \in {"find_best_garage", "find_top_garages"}
             /\ reqPc'[s] # reqPc[s])
            => /\ simPc \in {"sleep", "crashed"}
               /\ \A g \in Garages : available[g] \in 0..total_spots(g)]_vars
  /\ [][available' # available
          => (parking_lock = SIM /\ simPc = "for_garage")]_vars

C16_Witness ==
  /\ reqPc["s2"] = "find_top_garages"
  /\ reqBest["s2"] = 2
  /\ simPc = "sleep"
  /\ now > 0

\* C17: the list returned by find_top_garages / find_top_parking has at most
\* n entries, is sorted non-decreasing by score, and entries of equal score
\* are in catalog order
C17_RankedSortedStable ==
  fnOut.fn \in {"find_top_garages", "find_top_parking"}
    => /\ Len(fnOut.result) <= fnOut.n
       /\ \A i, j \in DOMAIN fnOut.result :
             i < j => \/ fnOut.result[i].score < fnOut.result[j].score
                      \/ /\ fnOut.result[i].score = fnOut.result[j].score
                         /\ fnOut.result[i].garage < fnOut.result[j].garage

C17_Witness ==
  /\ fnOut.fn = "find_top_garages"
  /\ Len(fnOut.result) = 2
  /\ fnOut.result[1].score = fnOut.result[2].score

\* C18: for the same catalog state, trip and preference, find_best_garage
\* returns the first entry of find_top_garages (location, drive distance,
\* walk distance), also when locations tie on score, and None when the list
\* is empty
C18_BestIsFirstOfTop ==
  fnOut.fn = "find_best_garage"
    => LET top == find_top_garages(fnIn.av, fnIn.trip.user, fnIn.trip.dest,
                                   fnIn.price_weight, 3)
       IN IF top = <<>> THEN fnOut.result.garage = 0
          ELSE /\ fnOut.result.garage = top[1].garage
               /\ fnOut.result.drive = top[1].drive
               /\ fnOut.result.walk = top[1].walk

C18_Witness ==
  /\ fnOut.fn = "find_best_garage"
  /\ fnOut.result.garage = 1
  /\ fnIn.av[2] > 0
  /\ score_parking(1, fnIn.av[1], fnIn.trip.user, fnIn.trip.dest,
                   fnIn.price_weight).score
       = score_parking(2, fnIn.av[2], fnIn.trip.user, fnIn.trip.dest,
                       fnIn.price_weight).score

\* the leg of a response: one fallback step, the straight-line distance,
\* no duration
FallbackLeg(leg, text, estimate) ==
  /\ Len(leg.steps) = 1
  /\ leg.steps[1].text = text
  /\ leg.distance = format_distance(estimate)
  /\ leg.duration = UnknownDuration

\* C19: when the directions lookup of a leg fails, the response is still a
\* success, and that leg has exactly one synthesized step, the haversine
\* estimate as its distance and an unknown duration
C19_DirectionsFallback ==
  (fnOut.fn = "current_parking" /\ AvailableGarages(fnIn.av) # {})
    => /\ fnOut.status = 200
       /\ ~fnOut.drive_api.ok
            => FallbackLeg(fnOut.directions_to_parking, "Drive approximately",
                           haversine(fnIn.trip.user,
                                     GaragePos(fnOut.best_parking)))
       /\ ~fnOut.walk_api.ok
            => FallbackLeg(fnOut.walk_to_destination, "Walk approximately",
                           haversine(GaragePos(fnOut.best_parking),
                                     fnIn.trip.dest))

\* C20: the score is the weighted burden-plus-price term times 1.5 when the
\* location has at most 20 free spots and times 1.0 when it has more, and it
\* is determined by the trip, the preference and the fields of the location
C20_PenaltyAtMostTwenty ==
  LET g == fnOut.garage
      factor == IF fnIn.av[g] <= 20 THEN 3 ELSE 2
      drive == haversine(fnIn.trip.user, GaragePos(g))
      walk == haversine(GaragePos(g), fnIn.trip.dest)
  IN /\ fnOut.fn = "score_parking"
          => fnOut.result.score
               = ((10 - fnIn.price_weight) * (drive + 2 * walk)
                    + fnIn.price_weight * PricePerHour[g] * 50) * factor
     /\ fnOut.fn = "score_parking_v2"
          => fnOut.result = (walk + PricePerHour[g] * 50) * factor

C20_Witness ==
  /\ fnOut.fn = "score_parking"
  /\ fnIn.av[fnOut.garage] = 20
  /\ fnOut.result.score % 3 = 0

Recommendation(m) == m.type = "parking_recommendation"

\* C21: the counts a recommendation payload shows for the returned locations
\* are those of the snapshot they were chosen from, hence > 0, even when the
\* simulator ran after the lock was released
C21_ReturnedCountsPositive ==
  \A m \in emitted :
     Recommendation(m)
       => /\ m.best_parking.available_spots > 0
          /\ \A i \in DOMAIN m.alternatives :
                m.alternatives[i].available_spots > 0

\* C22: the simulator calls the change check for a location only when the
\* clamped count differs from the old one: an iteration that leaves the
\* count as it was (a location staying at 0 in particular) enters no check,
\* starts no reroute and emits nothing
C22_CheckOnlyOnChange ==
  [][(simPc = "for_garage" /\ simVars' # simVars
        /\ available'[simGarage] = available[simGarage])
       => /\ simPc' \notin {"check", "find_best_garage"}
          /\ emitted' = {}
          /\ user_recommendations' = user_recommendations]_vars

C22_Witness ==
  /\ simPc = "for_garage"
  /\ simGarage = 2
  /\ available[1] = 0
  /\ emitted = {}
  /\ \E s \in Sessions :
        /\ user_recommendations[s] # NoRec
        /\ user_recommendations[s].garage_name = 1
        /\ user_recommendations[s].timestamp = now - TimeGrain

\* the ledger after a reroute of s differs from the one before only in the
\* location name, walk distance and timestamp of the entry of s
RerouteFrame(s) ==
  /\ \A t \in Sessions \ {s} :
        user_recommendations'[t] = user_recommendations[t]
  /\ user_recommendations'[s] # NoRec
  /\ user_recommendations'[s].trip = user_recommendations[s].trip
  /\ user_recommendations'[s].garage_name # user_recommendations[s].garage_name

C24_BestNotAmongAlternatives ==
  \A m \in emitted :
     Recommendation(m)
       => /\ Len(m.alternatives) <= 2
          /\ \A i \in DOMAIN m.alternatives :
                m.alternatives[i].name # m.best_parking.name

\* the session is gone, its entry is removed and no request of it is in flight
Removed(s) ==
  /\ s \notin connected
  /\ user_recommendations[s] = NoRec
  /\ reqPc[s] = "idle"

\* C25: once handle_disconnect has removed the entry of a session, no step
\* emits a warning or a reroute for that session and none brings an entry of
\* it back, also when the disconnect came in the middle of a simulator tick
C25_NothingAfterDisconnect ==
  [][\A s \in Sessions :
       Removed(s)
         => /\ user_recommendations'[s] = NoRec
            /\ ~\E m \in emitted' :
                  m.to = s /\ m.type \in {"warning", "reroute"}]_vars

\* C26: last_recommended changes only in an iteration that shows the user a
\* message naming the new location (the initial recommendation or a reroute
\* notification), so it always is the location last announced, and so is the
\* parking named on arrival
C26_LastRecommendedAnnounced ==
  [][last_recommended' # last_recommended
       => (navOut'.type \in {"initial", "reroute"}
             /\ navOut'.garage = last_recommended')]_vars

====
